---------------------------- MODULE Spec2Model ----------------------------
(***************************************************************************)
(* A model of OrderedMap (src/ordered_map.go): a Go map `data` from keys   *)
(* to values next to a slice `order` of keys, every method running under   *)
(* the map's RWMutex.  Each method is an operator from the container       *)
(* (data, order, less) and the arguments to the container after the call   *)
(* and the returned values; the actions apply one method call at a time,   *)
(* which is what the mutex makes of any concurrent use of the methods      *)
(* modelled here.                                                          *)
(***************************************************************************)
EXTENDS Integers, Sequences, FiniteSets, TLC

\* ------------------------------------------------------------------ bounds
\* Keys are 0..MaxKey and values 0..MaxVal (K = V = int in the tests).
MaxKey == 2
MaxVal == 1
\* The largest capacity hint given to WithCapacity at construction.
MaxCapacity == 1
\* The goroutines that call the container at the same time.
NumProcs == 2

Keys == 0..MaxKey
Values == 0..MaxVal

\* The zero values of K and V ("var zero V"; the slots make() and a growing
\* append() allocate hold the zero value of K).
ZeroK == 0
ZeroV == 0

\* A nil func value (a nil comparator, a nil update function).
Nil == "nil"

\* ------------------------------------------------------- Go built-in types
\* A Go slice is a window [1..len] on a backing array arr of cap = Len(arr)
\* slots; the slots beyond len keep whatever was written to them.
Slice(arr, len) == [arr |-> arr, len |-> len]

\* The elements of the slice, s[0:len(s)].
Elems(s) == SubSeq(s.arr, 1, s.len)

Cap(s) == Len(s.arr)

\* make([]K, 0, capacity): a zero-filled backing array, length 0.
MakeSlice(capacity) == Slice([i \in 1..capacity |-> ZeroK], 0)

\* append(s, x): written in place while len < cap; otherwise the runtime
\* allocates an array of double the capacity (1 for an empty one), copies the
\* len elements and zero-fills the rest.
AppendSlice(s, x) ==
    IF s.len < Cap(s)
    THEN Slice([s.arr EXCEPT ![s.len + 1] = x], s.len + 1)
    ELSE LET newcap == IF Cap(s) = 0 THEN 1 ELSE 2 * Cap(s)
         IN  Slice([i \in 1..newcap |->
                      IF i <= s.len THEN s.arr[i]
                      ELSE IF i = s.len + 1 THEN x ELSE ZeroK],
                   s.len + 1)

\* copy(s[dst:], s[src:]) inside one backing array: min(len - dst, len - src)
\* elements move as by memmove (the source is read before it is overwritten).
CopyWithin(s, dst, src) ==
    LET n == IF dst >= src THEN s.len - dst ELSE s.len - src
    IN  Slice([j \in 1..Cap(s) |->
                 IF j > dst /\ j <= dst + n THEN s.arr[src + (j - dst)]
                 ELSE s.arr[j]],
              s.len)

\* s[i] = x (0-based i)
SetIndex(s, i, x) == Slice([s.arr EXCEPT ![i + 1] = x], s.len)

\* v, exists := m.data[key]: the zero value when the key is absent.
Lookup(d, key) == IF key \in DOMAIN d THEN d[key] ELSE ZeroV

\* m.data[key] = value
Store(d, key, value) ==
    [k \in (DOMAIN d) \cup {key} |-> IF k = key THEN value ELSE d[k]]

\* delete(m.data, key)
Remove(d, key) == [k \in (DOMAIN d) \ {key} |-> d[k]]

\* make(map[K]V, n)
EmptyMap == [k \in {} |-> ZeroV]

\* --------------------------------------------------------------- the state
VARIABLES
    data,     \* m.data: the Go map, a function from the stored keys
    order,    \* m.order: the slice of keys
    less,     \* m.less: the default comparator, Nil when none was registered
    before,   \* data and order as they were when the last call started
    last,     \* the last call: its method, arguments and returned values
    held,     \* a snapshot a caller got from the container and still holds
    shadow,   \* the container the calls made so far produce by themselves
    mu,       \* m.mu: who holds the lock
    stack,    \* of each goroutine, the calls it is in, the innermost last
    prog,     \* of each goroutine, the calls it makes
    rets      \* of each goroutine, what its calls returned so far

seqVars == <<before, last>>
snapVars == <<held, shadow>>
concVars == <<mu, stack, prog, rets>>

\* What the calls made one at a time, with their results looked at, leave alone.
otherVars == <<snapVars, concVars>>

vars == <<data, order, less, before, last, held, shadow, mu, stack, prog, rets>>

Procs == 1..NumProcs

\* sync.RWMutex: the goroutine holding it for writing (0: none) and the
\* goroutines holding it for reading.
Unlocked == [writer |-> 0, readers |-> {}]

\* ------------------------------------------------------------- the methods
\* indexOf: the 0-based index of key in m.order, -1 when it is not there.
indexOf(o, key) ==
    IF \E i \in 1..o.len : o.arr[i] = key
    THEN (CHOOSE i \in 1..o.len :
             o.arr[i] = key /\ \A j \in 1..(i - 1) : o.arr[j] # key) - 1
    ELSE -1

\* removeFromOrder with the result of append dropped (m.order not reassigned):
\* the tail moves down but the slice keeps its length.
removeFromOrderNoAssign(o, key) ==
    LET i == indexOf(o, key)
    IN  IF i = -1 THEN o
        ELSE Slice([j \in 1..Cap(o) |->
                      IF j > i /\ j < o.len THEN o.arr[j + 1] ELSE o.arr[j]],
                   o.len)

\* removeFromOrder as a swap-remove: the last key takes the removed key's slot.
removeFromOrderSwap(o, key) ==
    LET i == indexOf(o, key)
    IN  IF i = -1 THEN o
        ELSE Slice([o.arr EXCEPT ![i + 1] = o.arr[o.len]], o.len - 1)

\* removeFromOrder: at the first i with order[i] = key,
\* append(m.order[:i], m.order[i+1:]...) moves the tail one slot down inside the
\* same backing array and shortens the slice by one; the last slot keeps its key.
removeFromOrder(o, key) ==
    LET i == indexOf(o, key)
    IN  IF i = -1 THEN o
        ELSE Slice([j \in 1..Cap(o) |->
                      IF j > i /\ j < o.len THEN o.arr[j + 1] ELSE o.arr[j]],
                   o.len - 1)

\* Set moving an updated key to the end of the order.
SetMoveToEnd(d, o, key, value) ==
    IF key \in DOMAIN d
    THEN [data |-> Store(d, key, value),
          order |-> AppendSlice(removeFromOrder(o, key), key)]
    ELSE [data |-> Store(d, key, value), order |-> AppendSlice(o, key)]

\* Set putting a new key first instead of last.
SetPrepend(d, o, key, value) ==
    IF key \in DOMAIN d
    THEN [data |-> Store(d, key, value), order |-> o]
    ELSE [data |-> Store(d, key, value),
          order |-> SetIndex(CopyWithin(AppendSlice(o, key), 1, 0), 0, key)]

\* Set
Set(d, o, key, value) ==
    IF key \in DOMAIN d
    THEN [data |-> Store(d, key, value), order |-> o]
    ELSE [data |-> Store(d, key, value), order |-> AppendSlice(o, key)]

\* Delete compacting the order but leaving the entry in the map.
DeleteOrderOnly(d, o, key) ==
    IF key \notin DOMAIN d
    THEN [data |-> d, order |-> o, val |-> ZeroV, ok |-> FALSE]
    ELSE [data |-> d, order |-> removeFromOrder(o, key),
          val |-> d[key], ok |-> TRUE]

\* Delete
Delete(d, o, key) ==
    IF key \notin DOMAIN d
    THEN [data |-> d, order |-> o, val |-> ZeroV, ok |-> FALSE]
    ELSE [data |-> Remove(d, key), order |-> removeFromOrder(o, key),
          val |-> d[key], ok |-> TRUE]

\* The update functions handed to Upsert: nil, func(old) { return old + 1 } on
\* a value type of MaxVal + 1 values, and func(old) { return old }.
Fns == {Nil, "inc", "same"}

Apply(fn, old) == IF fn = "inc" THEN (old + 1) % (MaxVal + 1) ELSE old

\* Upsert storing newVal instead of fn's result on an existing key.
UpsertStoresNewVal(d, o, key, newVal, fn) ==
    IF key \in DOMAIN d
    THEN IF fn = Nil
         THEN [data |-> d, order |-> o, val |-> ZeroV, inserted |-> FALSE,
               err |-> "upsert requires fn when key exists", calls |-> <<>>]
         ELSE [data |-> Store(d, key, newVal), order |-> o,
               val |-> newVal, inserted |-> FALSE, err |-> Nil,
               calls |-> <<d[key]>>]
    ELSE [data |-> Store(d, key, newVal), order |-> AppendSlice(o, key),
          val |-> newVal, inserted |-> TRUE, err |-> Nil, calls |-> <<>>]

\* Upsert refusing a nil fn before it looks the key up.
UpsertNilFirst(d, o, key, newVal, fn) ==
    IF fn = Nil
    THEN [data |-> d, order |-> o, val |-> ZeroV, inserted |-> FALSE,
          err |-> "upsert requires fn when key exists", calls |-> <<>>]
    ELSE IF key \in DOMAIN d
    THEN LET updated == Apply(fn, d[key])
         IN  [data |-> Store(d, key, updated), order |-> o,
              val |-> updated, inserted |-> FALSE, err |-> Nil,
              calls |-> <<d[key]>>]
    ELSE [data |-> Store(d, key, newVal), order |-> AppendSlice(o, key),
          val |-> newVal, inserted |-> TRUE, err |-> Nil, calls |-> <<>>]

\* Upsert writing newVal before it finds fn to be nil.
UpsertNilOverwrites(d, o, key, newVal, fn) ==
    IF key \in DOMAIN d
    THEN IF fn = Nil
         THEN [data |-> Store(d, key, newVal), order |-> o, val |-> ZeroV,
               inserted |-> FALSE,
               err |-> "upsert requires fn when key exists", calls |-> <<>>]
         ELSE LET updated == Apply(fn, d[key])
              IN  [data |-> Store(d, key, updated), order |-> o,
                   val |-> updated, inserted |-> FALSE, err |-> Nil,
                   calls |-> <<d[key]>>]
    ELSE [data |-> Store(d, key, newVal), order |-> AppendSlice(o, key),
          val |-> newVal, inserted |-> TRUE, err |-> Nil, calls |-> <<>>]

\* Upsert.  calls lists the arguments fn was invoked with, in order.
Upsert(d, o, key, newVal, fn) ==
    IF key \in DOMAIN d
    THEN IF fn = Nil
         THEN [data |-> d, order |-> o, val |-> ZeroV, inserted |-> FALSE,
               err |-> "upsert requires fn when key exists", calls |-> <<>>]
         ELSE LET updated == Apply(fn, d[key])
              IN  [data |-> Store(d, key, updated), order |-> o,
                   val |-> updated, inserted |-> FALSE, err |-> Nil,
                   calls |-> <<d[key]>>]
    ELSE [data |-> Store(d, key, newVal), order |-> AppendSlice(o, key),
          val |-> newVal, inserted |-> TRUE, err |-> Nil, calls |-> <<>>]

\* Get
Get(d, key) == [val |-> Lookup(d, key), ok |-> key \in DOMAIN d]

\* Has
Has(d, key) == key \in DOMAIN d

\* Len: len(m.data)
MapLen(d) == Cardinality(DOMAIN d)

\* Clear replacing the map and leaving m.order as it is.
ClearKeepsOrder(d, o) == [data |-> EmptyMap, order |-> o]

\* Clear: a new empty map, and m.order[:0] on the same backing array.
Clear(d, o) == [data |-> EmptyMap, order |-> Slice(o.arr, 0)]

\* Pair{Key: k, Value: v}
Pair(k, v) == [Key |-> k, Value |-> v]

\* Pairs: one Pair per key of m.order, with m.data[k], in a slice of its own.
Pairs(d, o) == [i \in 1..o.len |-> Pair(o.arr[i], Lookup(d, o.arr[i]))]

\* Keys: append([]K(nil), m.order...), a copy of the elements.
KeysOf(o) == [i \in 1..o.len |-> o.arr[i]]

\* Values
ValuesOf(d, o) == [i \in 1..o.len |-> Lookup(d, o.arr[i])]

\* The comparators handed to WithComparator and SortedPairs: a < b, a > b, and
\* three with equivalent keys (as len(a) < len(b) has): a / 2 < b / 2, which
\* makes neighbours equivalent, a % 2 < b % 2, which makes keys two apart
\* equivalent, and the one that puts no key before another.
Comparators == {"asc", "desc", "half", "parity", "none"}

Less(c, a, b) ==
    IF c = "asc" THEN a < b
    ELSE IF c = "desc" THEN a > b
    ELSE IF c = "half" THEN (a \div 2) < (b \div 2)
    ELSE IF c = "parity" THEN (a % 2) < (b % 2)
    ELSE FALSE

\* sort.SliceStable on a slice of at most 20 elements is one insertion sort:
\* element i moves down while the comparator puts it before its predecessor.
SwapPairs(p, i, j) == [p EXCEPT ![i] = p[j], ![j] = p[i]]

\* The inner loop moving an element down past the keys equivalent to it too
\* (the test "not less(previous, current)" in place of "less(current, previous)").
RECURSIVE SiftDownPastEqual(_, _, _)
SiftDownPastEqual(p, j, c) ==
    IF j > 1 /\ ~Less(c, p[j - 1].Key, p[j].Key)
    THEN SiftDownPastEqual(SwapPairs(p, j, j - 1), j - 1, c)
    ELSE p

RECURSIVE SiftDown(_, _, _)
SiftDown(p, j, c) ==
    IF j > 1 /\ Less(c, p[j].Key, p[j - 1].Key)
    THEN SiftDown(SwapPairs(p, j, j - 1), j - 1, c)
    ELSE p

RECURSIVE InsertionSort(_, _, _)
InsertionSort(p, i, c) ==
    IF i > Len(p) THEN p ELSE InsertionSort(SiftDown(p, i, c), i + 1, c)

SliceStable(p, c) == InsertionSort(p, 2, c)

\* The default comparator taking precedence over the argument.
ResolveLessDefaultFirst(dflt, lessArg) == IF dflt = Nil THEN lessArg ELSE dflt

\* The comparator SortedPairs sorts with: the argument unless it is nil, else
\* the default m.less.
ResolveLess(dflt, lessArg) == IF lessArg = Nil THEN dflt ELSE lessArg

\* SortedPairs.  isNil tells the nil slice of the error return from an empty one.
SortedPairs(d, o, dflt, lessArg) ==
    LET chosen == ResolveLess(dflt, lessArg)
    IN  IF chosen = Nil
        THEN [pairs |-> <<>>, isNil |-> TRUE, err |-> "comparator is required"]
        ELSE [pairs |-> SliceStable(Pairs(d, o), chosen), isNil |-> FALSE,
              err |-> Nil]

\* InsertBefore storing the value before it has found the target.
InsertBeforeStoreFirst(d, o, target, key, value) ==
    IF key \in DOMAIN d
    THEN [data |-> d, order |-> o, err |-> "key already exists"]
    ELSE LET idx == indexOf(o, target)
         IN  IF idx = -1
             THEN [data |-> Store(d, key, value), order |-> o,
                   err |-> "target key not found"]
             ELSE [data |-> Store(d, key, value),
                   order |-> SetIndex(CopyWithin(AppendSlice(o, key),
                                                 idx + 1, idx),
                                      idx, key),
                   err |-> Nil]

\* InsertBefore
InsertBefore(d, o, target, key, value) ==
    IF key \in DOMAIN d
    THEN [data |-> d, order |-> o, err |-> "key already exists"]
    ELSE LET idx == indexOf(o, target)
         IN  IF idx = -1
             THEN [data |-> d, order |-> o, err |-> "target key not found"]
             ELSE [data |-> Store(d, key, value),
                   order |-> SetIndex(CopyWithin(AppendSlice(o, key),
                                                 idx + 1, idx),
                                      idx, key),
                   err |-> Nil]

\* InsertAfter with insertPos = idx: the key lands before the target.
InsertAfterAtTarget(d, o, target, key, value) ==
    IF key \in DOMAIN d
    THEN [data |-> d, order |-> o, err |-> "key already exists"]
    ELSE LET idx == indexOf(o, target)
             insertPos == idx
         IN  IF idx = -1
             THEN [data |-> d, order |-> o, err |-> "target key not found"]
             ELSE [data |-> Store(d, key, value),
                   order |-> SetIndex(CopyWithin(AppendSlice(o, key),
                                                 insertPos + 1, insertPos),
                                      insertPos, key),
                   err |-> Nil]

\* InsertAfter looking for the target before it looks at the key.
InsertAfterTargetFirst(d, o, target, key, value) ==
    LET idx == indexOf(o, target)
        insertPos == idx + 1
    IN  IF idx = -1
        THEN [data |-> d, order |-> o, err |-> "target key not found"]
        ELSE IF key \in DOMAIN d
             THEN [data |-> d, order |-> o, err |-> "key already exists"]
             ELSE [data |-> Store(d, key, value),
                   order |-> SetIndex(CopyWithin(AppendSlice(o, key),
                                                 insertPos + 1, insertPos),
                                      insertPos, key),
                   err |-> Nil]

\* InsertAfter
InsertAfter(d, o, target, key, value) ==
    IF key \in DOMAIN d
    THEN [data |-> d, order |-> o, err |-> "key already exists"]
    ELSE LET idx == indexOf(o, target)
             insertPos == idx + 1
         IN  IF idx = -1
             THEN [data |-> d, order |-> o, err |-> "target key not found"]
             ELSE [data |-> Store(d, key, value),
                   order |-> SetIndex(CopyWithin(AppendSlice(o, key),
                                                 insertPos + 1, insertPos),
                                      insertPos, key),
                   err |-> Nil]

\* ------------------------------------------------------------- the actions
\* One caller at a time is inside the container: a call is taken when no
\* result is pending (last is Idle), runs the whole method and leaves its
\* arguments and results in last and the container it started from in before;
\* Return hands the results to the caller, who may then call again.
Idle == [op |-> "idle"]

NoSnapshot == [data |-> EmptyMap, order |-> MakeSlice(0), less |-> Nil]

Snapshot == [data |-> data, order |-> order, less |-> less]

Return ==
    /\ last # Idle
    /\ last' = Idle
    /\ before' = NoSnapshot
    /\ UNCHANGED <<data, order, less>>
    /\ UNCHANGED otherVars

CallSet ==
    /\ last = Idle
    /\ \E key \in Keys, value \in Values :
        LET r == Set(data, order, key, value)
        IN  /\ data' = r.data
            /\ order' = r.order
            /\ before' = Snapshot
            /\ last' = [op |-> "Set", key |-> key, value |-> value]
            /\ UNCHANGED less
            /\ UNCHANGED otherVars

CallDelete ==
    /\ last = Idle
    /\ \E key \in Keys :
        LET r == Delete(data, order, key)
        IN  /\ data' = r.data
            /\ order' = r.order
            /\ before' = Snapshot
            /\ last' = [op |-> "Delete", key |-> key, val |-> r.val, ok |-> r.ok]
            /\ UNCHANGED less
            /\ UNCHANGED otherVars

CallUpsert ==
    /\ last = Idle
    /\ \E key \in Keys, newVal \in Values, fn \in Fns :
        LET r == Upsert(data, order, key, newVal, fn)
        IN  /\ data' = r.data
            /\ order' = r.order
            /\ before' = Snapshot
            /\ last' = [op |-> "Upsert", key |-> key, newVal |-> newVal,
                        fn |-> fn, val |-> r.val, inserted |-> r.inserted,
                        err |-> r.err, calls |-> r.calls]
            /\ UNCHANGED less
            /\ UNCHANGED otherVars

CallClear ==
    /\ last = Idle
    /\ LET r == Clear(data, order)
       IN  /\ data' = r.data
           /\ order' = r.order
           /\ before' = Snapshot
           /\ last' = [op |-> "Clear"]
           /\ UNCHANGED less
           /\ UNCHANGED otherVars

CallInsertBefore ==
    /\ last = Idle
    /\ \E target \in Keys, key \in Keys, value \in Values :
        LET r == InsertBefore(data, order, target, key, value)
        IN  /\ data' = r.data
            /\ order' = r.order
            /\ before' = Snapshot
            /\ last' = [op |-> "InsertBefore", target |-> target, key |-> key,
                        value |-> value, err |-> r.err]
            /\ UNCHANGED less
            /\ UNCHANGED otherVars

CallInsertAfter ==
    /\ last = Idle
    /\ \E target \in Keys, key \in Keys, value \in Values :
        LET r == InsertAfter(data, order, target, key, value)
        IN  /\ data' = r.data
            /\ order' = r.order
            /\ before' = Snapshot
            /\ last' = [op |-> "InsertAfter", target |-> target, key |-> key,
                        value |-> value, err |-> r.err]
            /\ UNCHANGED less
            /\ UNCHANGED otherVars

CallGet ==
    /\ last = Idle
    /\ \E key \in Keys :
        LET r == Get(data, key)
        IN  /\ before' = Snapshot
            /\ last' = [op |-> "Get", key |-> key, val |-> r.val, ok |-> r.ok]
            /\ UNCHANGED <<data, order, less>>
            /\ UNCHANGED otherVars

CallHas ==
    /\ last = Idle
    /\ \E key \in Keys :
        /\ before' = Snapshot
        /\ last' = [op |-> "Has", key |-> key, ok |-> Has(data, key)]
        /\ UNCHANGED <<data, order, less>>
        /\ UNCHANGED otherVars

CallLen ==
    /\ last = Idle
    /\ before' = Snapshot
    /\ last' = [op |-> "Len", n |-> MapLen(data)]
    /\ UNCHANGED <<data, order, less>>
    /\ UNCHANGED otherVars

CallPairs ==
    /\ last = Idle
    /\ before' = Snapshot
    /\ last' = [op |-> "Pairs", pairs |-> Pairs(data, order)]
    /\ UNCHANGED <<data, order, less>>
    /\ UNCHANGED otherVars

CallKeys ==
    /\ last = Idle
    /\ before' = Snapshot
    /\ last' = [op |-> "Keys", keys |-> KeysOf(order)]
    /\ UNCHANGED <<data, order, less>>
    /\ UNCHANGED otherVars

CallValues ==
    /\ last = Idle
    /\ before' = Snapshot
    /\ last' = [op |-> "Values", values |-> ValuesOf(data, order)]
    /\ UNCHANGED <<data, order, less>>
    /\ UNCHANGED otherVars

\* SortedPairs sorting m.order itself instead of a snapshot of it.
CallSortedPairsInPlace ==
    /\ last = Idle
    /\ \E lessArg \in Comparators \cup {Nil} :
        LET r == SortedPairs(data, order, less, lessArg)
        IN  /\ before' = Snapshot
            /\ last' = [op |-> "SortedPairs", less |-> lessArg,
                        pairs |-> r.pairs, isNil |-> r.isNil, err |-> r.err]
            /\ order' = IF r.err = Nil
                        THEN Slice([i \in 1..Cap(order) |->
                                      IF i <= order.len THEN r.pairs[i].Key
                                      ELSE order.arr[i]],
                                   order.len)
                        ELSE order
            /\ UNCHANGED <<data, less>>
            /\ UNCHANGED otherVars

CallSortedPairs ==
    /\ last = Idle
    /\ \E lessArg \in Comparators \cup {Nil} :
        LET r == SortedPairs(data, order, less, lessArg)
        IN  /\ before' = Snapshot
            /\ last' = [op |-> "SortedPairs", less |-> lessArg,
                        pairs |-> r.pairs, isNil |-> r.isNil, err |-> r.err]
            /\ UNCHANGED <<data, order, less>>
            /\ UNCHANGED otherVars

\* NewOrderedMap: empty, with the capacity WithCapacity asked for (none: 0)
\* and the comparator WithComparator registered (none: nil; a < b otherwise).
NewOrderedMap ==
    /\ data = EmptyMap
    /\ \E capacity \in 0..MaxCapacity : order = MakeSlice(capacity)
    /\ less \in {Nil, "asc"}

\* No snapshot is held.
NoHeld == [kind |-> "none"]

\* No container is followed besides m.
NoShadow == [data |-> EmptyMap, order |-> MakeSlice(0)]

\* No call has been made, no snapshot is held and no goroutine is in a call.
Quiescent ==
    /\ before = NoSnapshot
    /\ last = Idle
    /\ held = NoHeld
    /\ mu = Unlocked
    /\ stack = [p \in Procs |-> <<>>]
    /\ rets = [p \in Procs |-> <<>>]

Init ==
    /\ NewOrderedMap
    /\ Quiescent
    /\ shadow = NoShadow
    /\ prog = [p \in Procs |-> <<>>]

Next ==
    \/ CallSet
    \/ CallDelete
    \/ CallUpsert
    \/ CallClear
    \/ CallInsertBefore
    \/ CallInsertAfter
    \/ CallGet
    \/ CallHas
    \/ CallLen
    \/ CallPairs
    \/ CallKeys
    \/ CallValues
    \/ CallSortedPairs
    \/ Return

Spec == Init /\ [][Next]_vars

\* ------------------------------------------- a caller that keeps a snapshot
\* A call that changes the container: its method and its arguments.
Mutators(K) ==
    {[op |-> "Set", key |-> k, value |-> v] : k \in K, v \in Values}
    \cup {[op |-> "Upsert", key |-> k, newVal |-> v, fn |-> fn] :
            k \in K, v \in Values, fn \in Fns}
    \cup {[op |-> "Delete", key |-> k] : k \in K}
    \cup {[op |-> "Clear"]}
    \cup {[op |-> o, target |-> t, key |-> k, value |-> v] :
            o \in {"InsertBefore", "InsertAfter"}, t \in K, k \in K,
            v \in Values}

\* What the method of call c does and returns on map d and order slice o.
Run(c, d, o) ==
    CASE c.op = "Set" -> Set(d, o, c.key, c.value)
      [] c.op = "Upsert" -> Upsert(d, o, c.key, c.newVal, c.fn)
      [] c.op = "Delete" -> Delete(d, o, c.key)
      [] c.op = "Clear" -> Clear(d, o)
      [] c.op = "InsertBefore" -> InsertBefore(d, o, c.target, c.key, c.value)
      [] c.op = "InsertAfter" -> InsertAfter(d, o, c.target, c.key, c.value)

\* A returned slice whose backing array was allocated by the call.
Detached(elems) == [elems |-> elems, aliases |-> FALSE]

\* Keys returning m.order itself.
KeysReturnsOrder(o) == [elems |-> Elems(o), aliases |-> TRUE]

\* Keys: append to a nil slice allocates, so the result has its own array.
KeysResult(o) == Detached(KeysOf(o))

\* While a caller keeps a snapshot the calls are on two keys, the smallest and
\* the largest.
SnapKeys == {ZeroK, MaxKey}

\* The snapshot calls a caller can make, and what each returns: the elements
\* and whether the slice is on the backing array of m.order.
SnapshotCalls ==
    {[op |-> "Keys"], [op |-> "Pairs"], [op |-> "Values"]}
    \cup {[op |-> "SortedPairs", less |-> c] : c \in Comparators \cup {Nil}}

Returned(c) ==
    CASE c.op = "Keys" -> KeysResult(order)
      [] c.op = "Pairs" -> Detached(Pairs(data, order))
      [] c.op = "Values" -> Detached(ValuesOf(data, order))
      [] c.op = "SortedPairs" ->
            Detached(SortedPairs(data, order, less, c.less).pairs)

\* The caller calls Pairs, Keys, Values or SortedPairs and keeps the slice.
\* written is the caller's own account of it: the elements as returned, with
\* the caller's later writes.
TakeSnapshot ==
    /\ \E c \in SnapshotCalls :
        /\ c.op = "SortedPairs" =>
               SortedPairs(data, order, less, c.less).err = Nil
        /\ held' = [kind |-> c.op, elems |-> Returned(c).elems,
                    aliases |-> Returned(c).aliases,
                    written |-> Returned(c).elems, scribbled |-> FALSE]
    /\ UNCHANGED <<data, order, less, before, last, shadow>>
    /\ UNCHANGED concVars

\* Another element of the same type: keys[0] = "x", pairs[0].Value = 999.
Overwritten(kind, e) ==
    CASE kind = "Keys" -> (e + 1) % (MaxKey + 1)
      [] kind = "Values" -> (e + 1) % (MaxVal + 1)
      [] OTHER -> Pair(e.Key, (e.Value + 1) % (MaxVal + 1))

\* The caller overwrites one element of the slice it holds. The write goes to
\* the slice's backing array, which is m.order's if the slice is on it.
Scribble ==
    /\ held.kind # "none"
    /\ ~held.scribbled
    /\ \E i \in 1..Len(held.elems) :
        LET x == Overwritten(held.kind, held.elems[i])
        IN  /\ held' = [held EXCEPT !.elems[i] = x, !.written[i] = x,
                                     !.scribbled = TRUE]
            /\ order' = IF held.aliases THEN SetIndex(order, i - 1, x)
                        ELSE order
    /\ UNCHANGED <<data, less, before, last, shadow>>
    /\ UNCHANGED concVars

\* What the held slice shows after a call turned order slice o into n: a
\* call that stayed within the capacity wrote the same backing array, one
\* that grew it moved m.order to a new array and left the old one alone.
SeenAfter(h, o, n) ==
    IF h.kind = "none" \/ ~h.aliases THEN h
    ELSE IF Cap(n) = Cap(o)
         THEN [h EXCEPT !.elems = [i \in 1..Len(h.elems) |-> n.arr[i]]]
         ELSE [h EXCEPT !.aliases = FALSE]

\* Set, Upsert, Delete, Clear, InsertBefore or InsertAfter while the caller
\* holds a snapshot (or none).
Mutate ==
    /\ \E c \in Mutators(SnapKeys) :
        LET r == Run(c, data, order)
            s == Run(c, shadow.data, shadow.order)
        IN  /\ data' = r.data
            /\ order' = r.order
            /\ held' = SeenAfter(held, order, r.order)
            /\ shadow' = [data |-> s.data, order |-> s.order]
    /\ UNCHANGED <<less, before, last>>
    /\ UNCHANGED concVars

NextSnap ==
    \/ TakeSnapshot
    \/ Scribble
    \/ Mutate

InitSnap ==
    /\ NewOrderedMap
    /\ Quiescent
    /\ shadow = [data |-> data, order |-> order]
    /\ prog = [p \in Procs |-> <<>>]

SpecSnap == InitSnap /\ [][NextSnap]_vars

\* ------------------------------------------------------ concurrent callers
\* The methods that take m.mu.Lock(); the others take m.mu.RLock().
Exclusive ==
    {"Set", "Upsert", "Delete", "Clear", "InsertBefore", "InsertAfter"}

\* Set taking the shared lock.
LockModeSetShared(op) == IF op \in Exclusive \ {"Set"} THEN "Lock" ELSE "RLock"

\* Upsert taking the shared lock.
LockModeUpsertShared(op) ==
    IF op \in Exclusive \ {"Upsert"} THEN "Lock" ELSE "RLock"

LockMode(op) == IF op \in Exclusive THEN "Lock" ELSE "RLock"

\* A lock that writers take while readers hold it.
CanLockIgnoringReaders(m, mode, p) == m.writer = 0

\* A lock that readers take while a writer holds it.
CanLockDuringWrite(m, mode, p) ==
    IF mode = "Lock" THEN m.writer = 0 /\ m.readers = {} ELSE TRUE

\* A lock its holder can take again.
CanLockReentrant(m, mode, p) ==
    IF mode = "Lock" THEN m.writer \in {0, p} /\ m.readers \subseteq {p}
    ELSE m.writer \in {0, p}

\* Whether Lock (RLock) returns: no holder at all (no writer). The holder
\* itself counts: the lock is not reentrant.
CanLock(m, mode, p) ==
    IF mode = "Lock" THEN m.writer = 0 /\ m.readers = {}
    ELSE m.writer = 0

DoLock(m, mode, p) ==
    IF mode = "Lock" THEN [m EXCEPT !.writer = p]
    ELSE [m EXCEPT !.readers = @ \cup {p}]

\* RUnlock that leaves the lock held.
RUnlockSkipped(m, p) == m

RUnlock(m, p) == [m EXCEPT !.readers = @ \ {p}]

DoUnlock(m, mode, p) ==
    IF mode = "Lock" THEN [m EXCEPT !.writer = 0] ELSE RUnlock(m, p)

\* Update functions that call the container they are run by: one Get, one Set,
\* on the key being upserted; both return the old value.
Reentrant == {"reenterGet", "reenterSet"}

InnerCall(c) ==
    IF c.fn = "reenterGet" THEN [op |-> "Get", key |-> c.key]
    ELSE [op |-> "Set", key |-> c.key, value |-> c.newVal]

\* What a read-only method returns on map d and order slice o.
ReadResult(c, d, o) ==
    CASE c.op = "Get" -> Get(d, c.key)
      [] c.op = "Has" -> [ok |-> Has(d, c.key)]
      [] c.op = "Len" -> [n |-> MapLen(d)]
      [] c.op = "Pairs" -> [pairs |-> Pairs(d, o)]
      [] c.op = "Keys" -> [keys |-> KeysOf(o)]
      [] c.op = "Values" -> [values |-> ValuesOf(d, o)]

\* The values a mutating method returns, of all that Run computes.
Results(r) == [f \in DOMAIN r \ {"data", "order"} |-> r[f]]

\* The container after each assignment a mutating method makes to m.data or
\* m.order, in the order of its statements, when it found map d and order
\* slice o; none when it returns early.
Stage(d, o) == [data |-> d, order |-> o]

StagesOfInsert(d, o, target, key, value, offset) ==
    LET idx == indexOf(o, target)
        pos == idx + offset
        stored == Store(d, key, value)
        extended == AppendSlice(o, key)
        shifted == CopyWithin(extended, pos + 1, pos)
    IN  IF key \in DOMAIN d \/ idx = -1 THEN <<>>
        ELSE <<Stage(stored, o), Stage(stored, extended),
               Stage(stored, shifted),
               Stage(stored, SetIndex(shifted, pos, key))>>

Stages(c, d, o) ==
    CASE c.op = "Set" ->
            IF c.key \in DOMAIN d THEN <<Stage(Store(d, c.key, c.value), o)>>
            ELSE <<Stage(Store(d, c.key, c.value), o),
                   Stage(Store(d, c.key, c.value), AppendSlice(o, c.key))>>
      [] c.op = "Upsert" ->
            IF c.key \in DOMAIN d
            THEN IF c.fn = Nil THEN <<>>
                 ELSE <<Stage(Store(d, c.key, Apply(c.fn, d[c.key])), o)>>
            ELSE <<Stage(Store(d, c.key, c.newVal), o),
                   Stage(Store(d, c.key, c.newVal), AppendSlice(o, c.key))>>
      [] c.op = "Delete" ->
            IF c.key \notin DOMAIN d THEN <<>>
            ELSE <<Stage(Remove(d, c.key), o),
                   Stage(Remove(d, c.key), removeFromOrder(o, c.key))>>
      [] c.op = "Clear" ->
            <<Stage(EmptyMap, o), Stage(EmptyMap, Slice(o.arr, 0))>>
      [] c.op = "InsertBefore" ->
            StagesOfInsert(d, o, c.target, c.key, c.value, 0)
      [] c.op = "InsertAfter" ->
            StagesOfInsert(d, o, c.target, c.key, c.value, 1)

\* What one goroutine does: the calls it makes, one after the other.
Setter(k) ==
    <<[op |-> "Set", key |-> k, value |-> k % (MaxVal + 1)],
      [op |-> "Get", key |-> k],
      [op |-> "Has", key |-> k]>>

Incrementer(v) ==
    <<[op |-> "Upsert", key |-> ZeroK, newVal |-> v, fn |-> "inc"],
      [op |-> "Upsert", key |-> ZeroK, newVal |-> v, fn |-> "inc"]>>

Reenterer(fn) ==
    <<[op |-> "Set", key |-> ZeroK, value |-> ZeroV],
      [op |-> "Upsert", key |-> ZeroK, newVal |-> MaxVal, fn |-> fn]>>

Programs ==
    {Setter(k) : k \in Keys}
    \cup {Incrementer(v) : v \in Values}
    \cup {Reenterer(fn) : fn \in Reentrant}
    \cup {<<[op |-> "Upsert", key |-> ZeroK, newVal |-> ZeroV, fn |-> Nil]>>,
          <<[op |-> "Delete", key |-> ZeroK]>>,
          <<[op |-> "Clear"]>>,
          <<[op |-> "InsertBefore", target |-> ZeroK, key |-> MaxKey,
             value |-> ZeroV]>>,
          <<[op |-> "InsertAfter", target |-> ZeroK, key |-> MaxKey,
             value |-> ZeroV]>>,
          <<[op |-> "SortedPairs", less |-> Nil]>>,
          <<[op |-> "SortedPairs", less |-> "desc"]>>,
          <<[op |-> "Len"], [op |-> "Pairs"], [op |-> "Keys"],
            [op |-> "Values"]>>}

NoCall == [op |-> "none"]

\* The innermost call goroutine p is in.
Top(p) == stack[p][Len(stack[p])]

\* The call of goroutine p that is at its m.mu.Lock() or m.mu.RLock(): the
\* next call of its program when it is in none, the call its update function
\* makes when it is in an Upsert that runs such a function.
Pending(p) ==
    IF stack[p] = <<>>
    THEN IF Len(rets[p]) < Len(prog[p]) THEN prog[p][Len(rets[p]) + 1]
         ELSE NoCall
    ELSE IF Top(p).pc = "in" /\ Top(p).inner = "todo"
         THEN InnerCall(Top(p).call)
         ELSE NoCall

\* A call that has just taken the lock. Upsert reads m.data[key] and, for a
\* key that exists, runs fn(old) before it writes anything.
Frame(c) ==
    [call |-> c, pc |-> "in", seen |-> [data |-> data, order |-> order],
     inner |-> IF c.op = "Upsert" /\ c.fn \in Reentrant /\ c.key \in DOMAIN data
               THEN "todo" ELSE "none",
     step |-> 0, out |-> <<>>]

\* m.mu.Lock() or m.mu.RLock() returns.
Acquire(p) ==
    /\ Pending(p) # NoCall
    /\ CanLock(mu, LockMode(Pending(p).op), p)
    /\ mu' = DoLock(mu, LockMode(Pending(p).op), p)
    /\ stack' = [stack EXCEPT ![p] = Append(@, Frame(Pending(p)))]
    /\ UNCHANGED <<data, order, less, prog, rets>>
    /\ UNCHANGED <<seqVars, snapVars>>

\* The body of a mutating method, on what it read after taking the lock: its
\* next assignment to m.data or m.order, and after the last one (or with none
\* to make) the values it returns.
Write(p) ==
    /\ stack[p] # <<>>
    /\ Top(p).pc = "in"
    /\ Top(p).call.op \in Exclusive
    /\ Top(p).inner # "todo"
    /\ LET r == Run(Top(p).call, Top(p).seen.data, Top(p).seen.order)
           st == Stages(Top(p).call, Top(p).seen.data, Top(p).seen.order)
           n == Top(p).step + 1
       IN  /\ data' = IF n <= Len(st) THEN st[n].data ELSE data
           /\ order' = IF n <= Len(st) THEN st[n].order ELSE order
           /\ stack' = [stack EXCEPT ![p][Len(stack[p])] =
                           IF n < Len(st) THEN [@ EXCEPT !.step = n]
                           ELSE [@ EXCEPT !.step = n, !.pc = "done",
                                          !.out = Results(r)]]
    /\ UNCHANGED <<less, mu, prog, rets>>
    /\ UNCHANGED <<seqVars, snapVars>>

\* The goroutine's stack and results once its innermost call returns out: a
\* call of the program is recorded, a call made by an update function lets the
\* Upsert around it go on.
Returning(p, out) ==
    IF Len(stack[p]) = 1
    THEN /\ stack' = [stack EXCEPT ![p] = <<>>]
         /\ rets' = [rets EXCEPT ![p] =
                        Append(@, [op |-> Top(p).call.op, out |-> out])]
    ELSE /\ stack' = [stack EXCEPT ![p] =
                        [SubSeq(@, 1, Len(@) - 1) EXCEPT ![Len(@) - 1] =
                            [@ EXCEPT !.inner = "done",
                                      !.seen = [data |-> data,
                                                order |-> order]]]]
         /\ rets' = rets

\* The deferred m.mu.Unlock() or m.mu.RUnlock() and the return; for a
\* read-only method, what it reads under the lock as well.
Release(p) ==
    /\ stack[p] # <<>>
    /\ Top(p).call.op # "SortedPairs"
    /\ Top(p).pc = IF Top(p).call.op \in Exclusive THEN "done" ELSE "in"
    /\ mu' = DoUnlock(mu, LockMode(Top(p).call.op), p)
    /\ Returning(p, IF Top(p).call.op \in Exclusive THEN Top(p).out
                    ELSE ReadResult(Top(p).call, data, order))
    /\ UNCHANGED <<data, order, less, prog>>
    /\ UNCHANGED <<seqVars, snapVars>>

\* SortedPairs returning the error without m.mu.RUnlock().
EndSnapshotErrorKeepsLock(p) ==
    /\ stack[p] # <<>>
    /\ Top(p).call.op = "SortedPairs"
    /\ Top(p).pc = "in"
    /\ LET chosen == ResolveLess(less, Top(p).call.less)
       IN  IF chosen = Nil
           THEN /\ mu' = mu
                /\ Returning(p, [pairs |-> <<>>, isNil |-> TRUE,
                                 err |-> "comparator is required"])
           ELSE /\ mu' = RUnlock(mu, p)
                /\ stack' = [stack EXCEPT ![p][Len(stack[p])] =
                               [@ EXCEPT !.pc = "sort",
                                         !.out = [pairs |-> Pairs(data, order),
                                                  chosen |-> chosen]]]
                /\ rets' = rets
    /\ UNCHANGED <<data, order, less, prog>>
    /\ UNCHANGED <<seqVars, snapVars>>

\* SortedPairs under the read lock: resolve the comparator; return the error
\* or copy the pairs; m.mu.RUnlock() either way.
EndSnapshot(p) ==
    /\ stack[p] # <<>>
    /\ Top(p).call.op = "SortedPairs"
    /\ Top(p).pc = "in"
    /\ mu' = RUnlock(mu, p)
    /\ LET chosen == ResolveLess(less, Top(p).call.less)
       IN  IF chosen = Nil
           THEN Returning(p, [pairs |-> <<>>, isNil |-> TRUE,
                              err |-> "comparator is required"])
           ELSE /\ stack' = [stack EXCEPT ![p][Len(stack[p])] =
                               [@ EXCEPT !.pc = "sort",
                                         !.out = [pairs |-> Pairs(data, order),
                                                  chosen |-> chosen]]]
                /\ rets' = rets
    /\ UNCHANGED <<data, order, less, prog>>
    /\ UNCHANGED <<seqVars, snapVars>>

\* sort.SliceStable on the copy, and the return.
Sort(p) ==
    /\ stack[p] # <<>>
    /\ Top(p).pc = "sort"
    /\ Returning(p, [pairs |-> SliceStable(Top(p).out.pairs,
                                           Top(p).out.chosen),
                     isNil |-> FALSE, err |-> Nil])
    /\ UNCHANGED <<data, order, less, mu, prog>>
    /\ UNCHANGED <<seqVars, snapVars>>

\* An empty container made without WithCapacity, and NumProcs goroutines, each
\* with its calls to make.
InitConc ==
    /\ NewOrderedMap
    /\ Cap(order) = 0
    /\ Quiescent
    /\ shadow = NoShadow
    /\ prog \in [Procs -> Programs]

NextConc ==
    \E p \in Procs :
        \/ Acquire(p)
        \/ Write(p)
        \/ Release(p)
        \/ EndSnapshot(p)
        \/ Sort(p)

SpecConc == InitConc /\ [][NextConc]_vars

\* Goroutines whose update functions and comparators return and do not call
\* the container: among their calls every one that returns an error.
LivePrograms ==
    {Setter(ZeroK),
     <<[op |-> "SortedPairs", less |-> Nil],
       [op |-> "InsertBefore", target |-> ZeroK, key |-> MaxKey,
        value |-> ZeroV],
       [op |-> "InsertAfter", target |-> ZeroK, key |-> MaxKey,
        value |-> ZeroV]>>,
     <<[op |-> "Upsert", key |-> ZeroK, newVal |-> ZeroV, fn |-> "inc"],
       [op |-> "Upsert", key |-> ZeroK, newVal |-> ZeroV, fn |-> Nil]>>,
     <<[op |-> "Delete", key |-> ZeroK], [op |-> "Clear"]>>,
     <<[op |-> "SortedPairs", less |-> "desc"], [op |-> "Pairs"]>>}

InitLive ==
    /\ NewOrderedMap
    /\ Cap(order) = 0
    /\ Quiescent
    /\ shadow = NoShadow
    /\ prog \in [Procs -> LivePrograms]

\* The next step of goroutine p, whichever it is.
Step(p) ==
    Acquire(p) \/ Write(p) \/ Release(p) \/ EndSnapshot(p) \/ Sort(p)

\* The scheduler runs every goroutine that can run, and a goroutine at Lock()
\* or RLock() gets the lock once it stays free.
SpecLive ==
    InitLive /\ [][NextConc]_vars /\ \A p \in Procs : WF_vars(Step(p))

\* ------------------------------------------------- vocabulary of the claims
\* The order sequence now and when the last call started.
OrderNow == Elems(order)
OrderWas == Elems(before.order)

\* The keys with a stored value when the last call started.
Present == DOMAIN before.data

\* The 1-based position of a key that occurs in a sequence.
Pos(seq, k) == CHOOSE i \in 1..Len(seq) : seq[i] = k

Range(seq) == {seq[i] : i \in 1..Len(seq)}

\* Every key but k has the value it had when the last call started.
OthersKeepValue(k) ==
    \A x \in Present \ {k} : x \in DOMAIN data /\ data[x] = before.data[x]

\* seq with x put at position p, the elements from p on one position later.
InsertedAt(seq, p, x) ==
    [i \in 1..(Len(seq) + 1) |->
        IF i < p THEN seq[i] ELSE IF i = p THEN x ELSE seq[i - 1]]

\* seq without its element at position p, the later ones one position earlier.
RemovedAt(seq, p) ==
    [i \in 1..(Len(seq) - 1) |-> IF i < p THEN seq[i] ELSE seq[i + 1]]

\* -------------------------------------------------------------------- C1
\* C1: in every state reached by Set, Upsert, Delete, Clear, InsertBefore and
\* InsertAfter calls, failed ones included, the order sequence has no duplicate
\* key, is as long as the number of stored entries, and holds exactly the keys
\* that have a stored value.
C1_Bijection ==
    /\ \A i, j \in 1..Len(OrderNow) : OrderNow[i] = OrderNow[j] => i = j
    /\ Len(OrderNow) = Cardinality(DOMAIN data)
    /\ Range(OrderNow) = DOMAIN data

\* A Delete of a key in the middle of three, leaving a stale slot behind.
C1_Witness ==
    /\ last.op = "Delete"
    /\ last.ok
    /\ Len(OrderWas) = 3
    /\ OrderWas[2] = last.key
    /\ Cap(order) > order.len

\* -------------------------------------------------------------------- C2
\* C2: Set on a key that is present replaces that key's value only: the order
\* sequence is the same before and after, and so is every other key's value.
C2_SetExistingKeepsOrder ==
    (last.op = "Set" /\ last.key \in Present) =>
        /\ OrderNow = OrderWas
        /\ DOMAIN data = Present
        /\ data[last.key] = last.value
        /\ OthersKeepValue(last.key)

C2_Witness ==
    /\ last.op = "Set"
    /\ Len(OrderWas) = 3
    /\ OrderWas[1] = last.key
    /\ before.data[last.key] # last.value

\* -------------------------------------------------------------------- C3
\* C3: Set on a key that is not present stores the value and makes the key the
\* last of the order sequence; the keys that were present keep position and
\* value.
C3_SetNewAppends ==
    (last.op = "Set" /\ last.key \notin Present) =>
        /\ Len(OrderNow) = Len(OrderWas) + 1
        /\ OrderNow[Len(OrderNow)] = last.key
        /\ \A i \in 1..Len(OrderWas) : OrderNow[i] = OrderWas[i]
        /\ DOMAIN data = Present \cup {last.key}
        /\ data[last.key] = last.value
        /\ OthersKeepValue(last.key)

C3_Witness ==
    /\ last.op = "Set"
    /\ last.key \notin Present
    /\ Len(OrderWas) = 2

\* -------------------------------------------------------------------- C4
\* C4: Delete of a present key returns (its value, true), removes the key from
\* the map and from the order sequence, leaves the keys before it in place,
\* moves each key after it exactly one slot earlier, and changes no other value.
C4_DeleteCompacts ==
    (last.op = "Delete" /\ last.key \in Present) =>
        /\ last.ok
        /\ last.val = before.data[last.key]
        /\ DOMAIN data = Present \ {last.key}
        /\ last.key \notin Range(OrderNow)
        /\ OrderNow = RemovedAt(OrderWas, Pos(OrderWas, last.key))
        /\ OthersKeepValue(last.key)

C4_Witness ==
    /\ last.op = "Delete"
    /\ last.ok
    /\ Len(OrderWas) = 3
    /\ OrderWas[1] = last.key
    /\ last.val # ZeroV


\* -------------------------------------------------------------------- C5
\* C5: with the target present and the new key absent, InsertBefore succeeds
\* and leaves the new key at the index the target had, InsertAfter succeeds and
\* leaves it right after the target (last when the target was last); the value
\* is stored, the keys before the insertion point stay, those at or after it
\* move exactly one position later, and every other value is unchanged.
C5_InsertPosition ==
    (/\ last.op \in {"InsertBefore", "InsertAfter"}
     /\ last.target \in Present
     /\ last.key \notin Present) =>
        LET t == Pos(OrderWas, last.target)
            p == IF last.op = "InsertBefore" THEN t ELSE t + 1
        IN  /\ last.err = Nil
            /\ OrderNow = InsertedAt(OrderWas, p, last.key)
            /\ OrderNow[p] = last.key
            /\ IF last.op = "InsertBefore"
               THEN OrderNow[p + 1] = last.target
               ELSE OrderNow[p - 1] = last.target
            /\ DOMAIN data = Present \cup {last.key}
            /\ data[last.key] = last.value
            /\ OthersKeepValue(last.key)

\* An InsertAfter behind the first of two keys: the second one moves.
C5_Witness ==
    /\ last.op = "InsertAfter"
    /\ last.err = Nil
    /\ Len(OrderWas) = 2
    /\ OrderWas[1] = last.target

\* -------------------------------------------------------------------- C6
\* C6: InsertBefore and InsertAfter return an error when the new key is already
\* present and when the target is absent, and such a call leaves the map and
\* the order slice (its backing array included) exactly as they were.
C6_InsertFailureNoChange ==
    (/\ last.op \in {"InsertBefore", "InsertAfter"}
     /\ (last.key \in Present \/ last.target \notin Present)) =>
        /\ last.err # Nil
        /\ data = before.data
        /\ order = before.order

\* A new key with a target that is absent from a container that is not empty.
C6_Witness ==
    /\ last.op = "InsertBefore"
    /\ last.key \notin Present
    /\ last.target \notin Present
    /\ last.target # last.key
    /\ Len(OrderWas) = 1

\* -------------------------------------------------------------------- C7
\* C7: Upsert on an existing key with a non-nil fn invokes fn exactly once, with
\* the value stored for the key, stores fn's result (not newVal), returns
\* (that result, inserted = false, no error) and leaves the order sequence and
\* every other value unchanged.
C7_UpsertUpdates ==
    (last.op = "Upsert" /\ last.key \in Present /\ last.fn # Nil) =>
        /\ last.calls = <<before.data[last.key]>>
        /\ DOMAIN data = Present
        /\ data[last.key] = Apply(last.fn, before.data[last.key])
        /\ last.val = data[last.key]
        /\ last.inserted = FALSE
        /\ last.err = Nil
        /\ order = before.order
        /\ OthersKeepValue(last.key)

\* fn's result differs from newVal, in a container of two keys.
C7_Witness ==
    /\ last.op = "Upsert"
    /\ last.key \in Present
    /\ last.fn = "inc"
    /\ last.val # last.newVal
    /\ Len(OrderWas) = 2

\* -------------------------------------------------------------------- C8
\* C8: Upsert on an absent key stores newVal, appends the key at the end of the
\* order sequence and returns (newVal, inserted = true, no error) without
\* invoking fn, be fn nil or not.
C8_UpsertInserts ==
    (last.op = "Upsert" /\ last.key \notin Present) =>
        /\ last.calls = <<>>
        /\ OrderNow = Append(OrderWas, last.key)
        /\ DOMAIN data = Present \cup {last.key}
        /\ data[last.key] = last.newVal
        /\ OthersKeepValue(last.key)
        /\ last.val = last.newVal
        /\ last.inserted = TRUE
        /\ last.err = Nil

C8_Witness ==
    /\ last.op = "Upsert"
    /\ last.fn = Nil
    /\ last.inserted
    /\ last.newVal # ZeroV
    /\ Len(OrderWas) = 2

\* -------------------------------------------------------------------- C9
\* C9: Upsert on an existing key with a nil fn returns an error and leaves the
\* key's value, every other value and the order slice unchanged.
C9_UpsertNilFnNoChange ==
    (last.op = "Upsert" /\ last.key \in Present /\ last.fn = Nil) =>
        /\ last.err # Nil
        /\ last.inserted = FALSE
        /\ data = before.data
        /\ order = before.order

C9_Witness ==
    /\ last.op = "Upsert"
    /\ last.key \in Present
    /\ last.fn = Nil
    /\ last.newVal # before.data[last.key]
    /\ Len(OrderWas) = 2

\* -------------------------------------------------------------------- C10
\* A sequence of pairs no later pair of which the comparator puts before an
\* earlier one.
SortedBy(c, pairs) ==
    \A i, j \in 1..Len(pairs) :
        i < j => ~Less(c, pairs[j].Key, pairs[i].Key)

\* A sequence holding each (key, value) of the container exactly once.
HoldsContainer(pairs) ==
    /\ Len(pairs) = Cardinality(DOMAIN data)
    /\ Range(pairs) = {Pair(k, data[k]) : k \in DOMAIN data}

\* C10: SortedPairs sorts by its argument when that is not nil, even if a
\* default is registered, and by the default registered at construction
\* otherwise; when both are nil it returns the comparator-required error and a
\* nil result, whatever the container holds (nothing included).
C10_ComparatorResolution ==
    (last.op = "SortedPairs") =>
        IF last.less # Nil
        THEN /\ last.err = Nil
             /\ ~last.isNil
             /\ HoldsContainer(last.pairs)
             /\ SortedBy(last.less, last.pairs)
        ELSE IF less # Nil
        THEN /\ last.err = Nil
             /\ ~last.isNil
             /\ HoldsContainer(last.pairs)
             /\ SortedBy(less, last.pairs)
        ELSE /\ last.err = "comparator is required"
             /\ last.isNil
             /\ last.pairs = <<>>

\* An argument that orders the keys against the registered default.
C10_Witness ==
    /\ last.op = "SortedPairs"
    /\ last.less = "desc"
    /\ less = "asc"
    /\ Len(last.pairs) = 3
    /\ last.pairs # Pairs(data, order)

\* -------------------------------------------------------------------- C11
\* Two keys neither of which the comparator puts before the other.
Equivalent(c, a, b) == ~Less(c, a, b) /\ ~Less(c, b, a)

\* C11: whichever comparator a successful SortedPairs sorted by, its result
\* holds each (key, value) of the container exactly once, no pair comes before
\* a pair whose key the comparator puts before its own, and two keys the
\* comparator treats as equivalent come in the order they have in the order
\* sequence.
C11_StableSort ==
    (last.op = "SortedPairs" /\ last.err = Nil) =>
        LET c == IF last.less # Nil THEN last.less ELSE less
            p == last.pairs
        IN  /\ HoldsContainer(p)
            /\ SortedBy(c, p)
            /\ \A i, j \in 1..Len(p) :
                   (i < j /\ Equivalent(c, p[i].Key, p[j].Key)) =>
                       Pos(OrderWas, p[i].Key) < Pos(OrderWas, p[j].Key)

\* Three keys, the two equivalent ones stored in descending order and apart,
\* the sort moving the third across them.
C11_Witness ==
    /\ last.op = "SortedPairs"
    /\ last.less = "parity"
    /\ OrderWas = <<2, 1, 0>>
    /\ last.pairs[1].Key = 2
    /\ last.pairs[2].Key = 0

\* -------------------------------------------------------------------- C12
ReadOps == {"Get", "Has", "Len", "Pairs", "Keys", "Values", "SortedPairs"}

\* C12: Get, Has, Len, Pairs, Keys, Values and SortedPairs, failing or not,
\* leave the map, the order slice and the default comparator as they were; Keys
\* returns the order sequence as stored, which a SortedPairs before it has
\* therefore not sorted.
C12_ReadsChangeNothing ==
    (last.op \in ReadOps) =>
        /\ data = before.data
        /\ order = before.order
        /\ less = before.less
        /\ (last.op = "Keys" => last.keys = OrderWas)

\* A SortedPairs whose result is in another order than the order sequence.
C12_Witness ==
    /\ last.op = "SortedPairs"
    /\ last.err = Nil
    /\ Len(last.pairs) = 3
    /\ [i \in 1..3 |-> last.pairs[i].Key] # OrderNow

\* -------------------------------------------------------------------- C14
\* C14: in the state a Set(k, v) leaves, Get(k) returns (v, true); in the state
\* a Delete(k) leaves, Get(k) returns (zero value, false) and Has(k) false, the
\* key having been present before the call or not.
C14_RoundTrip ==
    /\ (last.op = "Set") =>
           Get(data, last.key) = [val |-> last.value, ok |-> TRUE]
    /\ (last.op = "Delete") =>
           /\ Get(data, last.key) = [val |-> ZeroV, ok |-> FALSE]
           /\ ~Has(data, last.key)

\* A Delete of a key that was stored with a value other than the zero value.
C14_Witness ==
    /\ last.op = "Delete"
    /\ last.ok
    /\ last.val # ZeroV
    /\ Len(OrderWas) = 2

\* -------------------------------------------------------------------- C19
\* What a call leaves and returns, the stale slots of the backing array aside.
Outcome(r) == [f \in DOMAIN r |-> IF f = "order" THEN Elems(r.order) ELSE r[f]]

\* C19: after Clear, Len is 0, Pairs, Keys and Values are empty and Has is false
\* for every key; every Set, Upsert, InsertBefore and InsertAfter then does and
\* returns what it does on a newly constructed container (a key set is first
\* in order, an insertion finds no target), and the default comparator is the
\* one registered.
C19_ClearEmpties ==
    (last.op = "Clear") =>
        /\ MapLen(data) = 0
        /\ Pairs(data, order) = <<>>
        /\ KeysOf(order) = <<>>
        /\ ValuesOf(data, order) = <<>>
        /\ \A k \in Keys : ~Has(data, k)
        /\ less = before.less
        /\ \A k \in Keys, v \in Values :
              /\ Outcome(Set(data, order, k, v))
                    = Outcome(Set(EmptyMap, MakeSlice(0), k, v))
              /\ Elems(Set(data, order, k, v).order) = <<k>>
              /\ \A fn \in Fns :
                    Outcome(Upsert(data, order, k, v, fn))
                      = Outcome(Upsert(EmptyMap, MakeSlice(0), k, v, fn))
              /\ \A t \in Keys :
                    /\ Outcome(InsertBefore(data, order, t, k, v))
                          = Outcome(InsertBefore(EmptyMap, MakeSlice(0), t, k, v))
                    /\ Outcome(InsertAfter(data, order, t, k, v))
                          = Outcome(InsertAfter(EmptyMap, MakeSlice(0), t, k, v))
                    /\ InsertBefore(data, order, t, k, v).err
                          = "target key not found"

\* A Clear of three keys, which stay in the backing array.
C19_Witness ==
    /\ last.op = "Clear"
    /\ Len(OrderWas) = 3
    /\ order.len = 0
    /\ Cap(order) >= 3
    /\ less # Nil

\* C13: a slice returned by Pairs, Keys, Values or SortedPairs is detached from
\* the container both ways. Whatever the caller has written into it, Get, Has,
\* Len, Keys and Pairs report what the calls made on the container produce by
\* themselves; and whatever Set, Upsert, Delete, Clear, InsertBefore or
\* InsertAfter did afterwards, in place or not, the slice has the length and
\* the elements it was returned with, with the caller's own writes.
C13_SnapshotDetached ==
    /\ KeysOf(order) = KeysOf(shadow.order)
    /\ Pairs(data, order) = Pairs(shadow.data, shadow.order)
    /\ MapLen(data) = MapLen(shadow.data)
    /\ \A k \in Keys :
           /\ Get(data, k) = Get(shadow.data, k)
           /\ Has(data, k) = Has(shadow.data, k)
    /\ held.kind # "none" => held.elems = held.written

\* A Keys slice of two keys, one of them overwritten by the caller, and after
\* it the container emptied on the backing array it had.
C13_Witness ==
    /\ held.kind = "Keys"
    /\ held.scribbled
    /\ Len(held.elems) = 2
    /\ order.len = 0
    /\ Cap(order) = 2

\* ---------------------------------------- vocabulary of the concurrent claims
\* Goroutine p has made all its calls and every one has returned.
Done(p) == stack[p] = <<>> /\ Len(rets[p]) = Len(prog[p])

\* Every goroutine is a setter, each of a key of its own.
DistinctSetters ==
    /\ \A p \in Procs : prog[p] \in {Setter(k) : k \in Keys}
    /\ \A p, q \in Procs : p # q => prog[p] # prog[q]

\* How often key k occurs in the order sequence.
Occurrences(k) == Cardinality({i \in 1..order.len : order.arr[i] = k})

\* C15: when each of the goroutines Sets a key of its own on an empty
\* container, then Gets and Has-es it, then under every interleaving a key
\* whose Set has returned is present with the value set and once in the order
\* sequence, its caller's Get and Has find it, and once all calls have returned
\* Len is the number of goroutines and the order sequence has that many keys.
C15_ConcurrentSets ==
    DistinctSetters =>
        /\ \A p \in Procs :
            LET c == prog[p][1]
            IN  /\ Len(rets[p]) >= 1 =>
                       /\ Get(data, c.key) = [val |-> c.value, ok |-> TRUE]
                       /\ Occurrences(c.key) = 1
                /\ Len(rets[p]) >= 2 =>
                       rets[p][2].out = [val |-> c.value, ok |-> TRUE]
                /\ Len(rets[p]) >= 3 => rets[p][3].out.ok
        /\ (\A p \in Procs : Done(p)) =>
               /\ MapLen(data) = NumProcs
               /\ order.len = NumProcs

\* All calls have returned, and the goroutine with the highest number had its
\* key in first.
C15_Witness ==
    /\ DistinctSetters
    /\ \A p \in Procs : Done(p)
    /\ order.arr[1] = prog[NumProcs][1].key
    /\ prog[1][1].key = MaxKey

\* The calls that have returned, as <<goroutine, number of the call>>.
Returns == {x \in Procs \X (1..2) : x[2] <= Len(rets[x[1]])}

\* C16: when every goroutine Upserts the same key, absent at first, twice with
\* the function that adds 1 (values wrap round after MaxVal), then under every
\* interleaving at most one call reports inserted, and once all have returned
\* exactly one has and the value is the one that call inserted plus one for
\* every call that reported not inserted.
C16_UpsertAtomic ==
    (\A p \in Procs : prog[p] \in {Incrementer(v) : v \in Values}) =>
        LET ins == {x \in Returns : rets[x[1]][x[2]].out.inserted}
            upd == Returns \ ins
        IN  /\ Cardinality(ins) <= 1
            /\ (\A p \in Procs : Done(p)) =>
                   /\ Cardinality(ins) = 1
                   /\ \A x \in ins :
                          Get(data, ZeroK) =
                              [val |-> (prog[x[1]][x[2]].newVal
                                        + Cardinality(upd)) % (MaxVal + 1),
                               ok |-> TRUE]

\* All have returned; the last goroutine inserted, with another value than the
\* first goroutine passed, between the first one's calls or after.
C16_Witness ==
    /\ \A p \in Procs : prog[p] \in {Incrementer(v) : v \in Values}
    /\ \A p \in Procs : Done(p)
    /\ rets[NumProcs][1].out.inserted
    /\ prog[NumProcs] # prog[1]
    /\ ~rets[1][2].out.inserted

\* Goroutine p is in sort.SliceStable of a SortedPairs call.
Sorting(p) == stack[p] # <<>> /\ Top(p).pc = "sort"

\* C17: while a SortedPairs call sorts, its goroutine holds m.mu neither for
\* reading nor for writing, and a goroutine at the Lock() of Set, Upsert,
\* Delete, Clear, InsertBefore or InsertAfter gets the lock whenever no other
\* goroutine is in a call that has not got as far as sorting.
C17_SortOutsideLock ==
    \A p \in Procs :
        Sorting(p) =>
            /\ mu.writer # p
            /\ p \notin mu.readers
            /\ \A q \in Procs \ {p} :
                   (/\ Pending(q) # NoCall
                    /\ Pending(q).op \in Exclusive
                    /\ \A r \in Procs \ {p} : stack[r] = <<>> \/ Sorting(r))
                   => ENABLED Acquire(q)

\* A goroutine sorts the copy of an empty container while a Set of another
\* goroutine, begun after the copy, has returned.
C17_Witness ==
    \E p, q \in Procs :
        /\ Sorting(p)
        /\ Top(p).out.pairs = <<>>
        /\ Len(rets[q]) >= 1
        /\ rets[q][1].op = "Set"
        /\ MapLen(data) = 1

\* Goroutine p is in an Upsert whose update function calls the container.
InReentrantFn(p) ==
    stack[p] # <<>> /\ Top(p).pc = "in" /\ Top(p).inner = "todo"

\* C18: while Upsert runs, on a key that exists, an update function that calls
\* Get or Set of the same container, its goroutine holds the lock for writing,
\* the call of the function never gets the lock, the Upsert goes no further and
\* does not return, and no other goroutine gets the lock either; an Upsert with
\* such a function that has returned found no key and did not run it.
C18_ReentrantDeadlock ==
    \A p \in Procs :
        /\ InReentrantFn(p) =>
               /\ mu.writer = p
               /\ ~ENABLED Acquire(p)
               /\ ~ENABLED Write(p)
               /\ ~ENABLED Release(p)
               /\ \A q \in Procs : ~ENABLED Acquire(q)
        /\ Len(stack[p]) <= 1
        /\ \A i \in 1..Len(rets[p]) :
               (prog[p][i].op = "Upsert" /\ prog[p][i].fn \in Reentrant) =>
                   rets[p][i].out.inserted

\* An update function that calls Set is running, another goroutine has calls
\* left to make, and no goroutine can take a step.
C18_Witness ==
    /\ InReentrantFn(1)
    /\ Top(1).call.fn = "reenterSet"
    /\ \E q \in Procs : stack[q] = <<>> /\ Pending(q) # NoCall
    /\ ~ENABLED NextConc

\* Goroutine p is between taking the lock and releasing it.
InCS(p) == \E i \in 1..Len(stack[p]) : stack[p][i].pc \in {"in", "done"}

\* The same, in Set, Upsert, Delete, Clear, InsertBefore or InsertAfter.
WriterInCS(p) ==
    \E i \in 1..Len(stack[p]) :
        stack[p][i].pc \in {"in", "done"} /\ stack[p][i].call.op \in Exclusive

\* C20: while a goroutine is in the critical section of Set, Upsert, Delete,
\* Clear, InsertBefore or InsertAfter, no other goroutine is in a critical
\* section, of a mutating or of a read-only method.
C20_LockingDiscipline ==
    \A p, q \in Procs : (p # q /\ WriterInCS(p)) => ~InCS(q)

\* Every goroutine is in the critical section of a read-only method at the
\* same time, one of them in the snapshot phase of SortedPairs.
C20_Witness ==
    /\ \A p \in Procs : InCS(p) /\ ~WriterInCS(p)
    /\ \E p \in Procs : Top(p).call.op = "SortedPairs"
    /\ \E p \in Procs : Top(p).call.op = "Get"

\* C23: InsertBefore and InsertAfter look at the new key before the target. With
\* the key present and the target absent the error is key already exists; with
\* the target equal to the key the call fails, with key already exists when the
\* key is present and target key not found when it is absent, and the map and
\* the order slice stay as they were.
C23_KeyCheckedFirst ==
    (last.op \in {"InsertBefore", "InsertAfter"}) =>
        /\ (last.key \in Present /\ last.target \notin Present) =>
               last.err = "key already exists"
        /\ (last.target = last.key) =>
               /\ last.err = IF last.key \in Present
                             THEN "key already exists"
                             ELSE "target key not found"
               /\ data = before.data
               /\ order = before.order

\* An InsertAfter of a key that is present behind a target that is not, on a
\* container with two keys.
C23_Witness ==
    /\ last.op = "InsertAfter"
    /\ last.key \in Present
    /\ last.target \notin Present
    /\ Len(OrderWas) = 2
    /\ last.err = "key already exists"

\* Map d and order slice o are not in the middle of a mutation: no key twice in
\* order, none in order without a value, none with a value and not in order.
Settled(d, o) ==
    /\ \A i, j \in 1..o.len : o.arr[i] = o.arr[j] => i = j
    /\ {o.arr[i] : i \in 1..o.len} = DOMAIN d

\* Goroutine p holds the lock in a read-only method.
Reading(p) ==
    stack[p] # <<>> /\ Top(p).pc = "in" /\ Top(p).call.op \notin Exclusive

\* C21: from the instant Pairs, Keys, Values, Get, Has, Len or the snapshot
\* phase of SortedPairs got the lock until it lets go, the container is the one
\* of that instant, which is in the middle of no mutation, so what the call
\* reads is the contents of that one instant, key by key in the order sequence
\* with the value stored then; the pairs a SortedPairs call sorts are those of
\* that instant whatever has been written since.
C21_SnapshotAtOneInstant ==
    \A p \in Procs :
        /\ Reading(p) =>
               /\ Settled(Top(p).seen.data, Top(p).seen.order)
               /\ data = Top(p).seen.data
               /\ Elems(order) = Elems(Top(p).seen.order)
               /\ Top(p).call.op # "SortedPairs" =>
                      ReadResult(Top(p).call, data, order) =
                          ReadResult(Top(p).call, Top(p).seen.data,
                                     Top(p).seen.order)
        /\ Sorting(p) =>
               /\ Settled(Top(p).seen.data, Top(p).seen.order)
               /\ Top(p).out.pairs =
                      Pairs(Top(p).seen.data, Top(p).seen.order)

\* A SortedPairs call sorts the copy it took of the empty container while a Set
\* that got the lock afterwards has stored its value and not yet appended its
\* key to the order slice.
C21_Witness ==
    \E p, q \in Procs :
        /\ Sorting(p)
        /\ Top(p).out.pairs = <<>>
        /\ stack[q] # <<>>
        /\ Top(q).call.op = "Set"
        /\ Top(q).pc = "in"
        /\ Top(q).step = 1
        /\ Top(q).call.key \in DOMAIN data
        /\ order.len = 0

\* The lock is held for writing by the goroutine in the critical section of a
\* mutating method and by no other, for reading by the goroutines in that of a
\* read-only method and by no others.
LockAsHeld ==
    \A p \in Procs :
        /\ mu.writer = p <=> WriterInCS(p)
        /\ p \in mu.readers <=> Reading(p)

\* C22: with every goroutine scheduled again and again, update functions and
\* comparators that return and no update function that calls the container,
\* all calls of all goroutines return; at every moment the lock is held by
\* exactly the goroutines inside a critical section, so it is free when no
\* call is in progress, whatever returned an error before; and while a call
\* is left to make or to finish some goroutine can take a step.
C22_AllCallsReturn ==
    /\ <>(\A p \in Procs : Done(p))
    /\ [](LockAsHeld /\ ((\A p \in Procs : stack[p] = <<>>) => mu = Unlocked))
    /\ []((\E p \in Procs : ~Done(p)) => ENABLED NextConc)

\* All calls have returned and the lock is free, after a SortedPairs without
\* comparator, an InsertAfter of a key that exists and an Upsert without
\* update function on a key that exists.
C22_Witness ==
    /\ \A p \in Procs : Done(p)
    /\ mu = Unlocked
    /\ rets[1][1].op = "SortedPairs"
    /\ rets[1][1].out.err = "comparator is required"
    /\ rets[1][2].out.err = Nil
    /\ rets[1][3].out.err = "key already exists"
    /\ rets[2][2].op = "Upsert"
    /\ rets[2][2].out.err = "upsert requires fn when key exists"

=============================================================================
